---- MODULE Spec2Model ----
(***************************************************************************)
(* State-machine model of transV2.py: a batch translator that walks a      *)
(* directory tree, reads every .txt file with a list of candidate          *)
(* encodings, sends each line to a remote translation endpoint with        *)
(* retries, and appends one formatted record per line to a mirrored        *)
(* output file.                                                            *)
(*                                                                         *)
(* Text is a sequence of one-character strings, so that strip(), string    *)
(* repetition and concatenation are computed, not assumed.                 *)
(*                                                                         *)
(* The specifications share the variables and the actions:                 *)
(*   SpecClient  a direct call of translate_text_segment(text, ...)        *)
(*   SpecLang    the same call under every validated language              *)
(*   SpecFile    a direct call of process_file(...) on one file            *)
(*   SpecCrash   process_file killed while its output file is open         *)
(*   SpecRerun   process_file run twice on the same output path            *)
(*   Spec        a whole run of the script (__main__ and the dispatcher)   *)
(*   SpecLive    a whole run in which every thread keeps running           *)
(*   SpecPool    a whole run on more files than the pool has workers       *)
(***************************************************************************)
EXTENDS Integers, Sequences, FiniteSets, TLC

VARIABLES
  pc,                 \* per job: position of the job's thread
  exc,                \* per job: the exception that left the job, or "none"
  text,               \* per job: translate_text_segment's argument `text`
  attempt,            \* per job: translate_text_segment's local `attempt`
  nreq,               \* per job: requests.post calls made by the current call
  ndelay,             \* per job: time.sleep calls made by the current call
  outcomes,           \* per job: outcome of each attempt of the current call
  result,             \* per job: value returned by translate_text_segment
  src,                \* per job: the input file at input_path
  output_format,      \* per job: process_file's parameter `output_format`
  output_path,        \* per job: process_file's parameter `output_path`
  lines,              \* per job: process_file's local `lines`
  line_number,        \* per job: number of lines whose loop body has completed
  translated_line,    \* per job: process_file's local `translated_line`
  calls,              \* per job: how translated_line was obtained, one per line
  translated,         \* per job: history of translated_line, one per written line
  buffered,           \* per job: text written to output_file and not yet flushed
  pre,                \* per job: content of the output file when it was opened
  encodings_to_try,   \* per job: read_file_with_fallback_encodings' local
  tried,              \* per job: <<encoding, outcome>> of each open() so far
  fs,                 \* filesystem: output path -> durable content
  dirs,               \* filesystem: the output directories that exist
  mainpc,             \* position of the main thread
  output_format_code, \* __main__'s configuration value
  main_output_format, \* __main__'s global `output_format`
  tree,               \* the input tree, in os.walk order
  txt_files,          \* create_translated_directory_structure's local
  futures,            \* jobs submitted to the executor, in submission order
  collected,          \* jobs whose future.result() has been taken, in order
  log,                \* the dispatcher's messages
  history,            \* per job: the earlier completed runs of process_file
  source_lang,        \* __main__'s configuration value
  target_lang,        \* __main__'s configuration value
  data                \* per job: the language fields of the request's `data`

clientVars == <<text, attempt, nreq, ndelay, outcomes, result>>
readVars   == <<encodings_to_try, tried>>
fileVars   == <<src, output_format, output_path, lines, line_number,
                translated_line, calls, translated, buffered, pre>>
diskVars   == <<fs, dirs>>
mainVars   == <<mainpc, output_format_code, main_output_format, tree,
                txt_files, futures, collected, log>>
jobVars    == <<exc, clientVars, readVars, src, output_format, output_path, lines,
                line_number, translated_line, calls, translated, buffered, pre>>
langVars   == <<source_lang, target_lang>>
vars == <<pc, exc, clientVars, readVars, fileVars, diskVars, mainVars, history, langVars, data>>

----------------------------------------------------------------------------
(* Bounds of the model *)

MaxLines == 2       \* lines per input file in SpecFile
MaxFiles == 2       \* .txt files in the input tree in Spec
MaxJobs == 6        \* .txt files in the input tree in SpecPool

(* Program constants *)

retries == 2
max_workers == 5

Jobs == 1..MaxJobs

----------------------------------------------------------------------------
(* Text *)

None == <<"None">>            \* Python's None; no text holds the element "None"
NotCalled == <<"NotCalled">>  \* marks a line translate_text_segment was not called for
NoFormat == "None"            \* dict.get's None for a code that is not a key
Whitespace == {" ", "\n"}

RECURSIVE LStrip(_)
LStrip(s) == IF s # <<>> /\ Head(s) \in Whitespace THEN LStrip(Tail(s)) ELSE s

RECURSIVE RStrip(_)
RStrip(s) ==
  IF s # <<>> /\ s[Len(s)] \in Whitespace
  THEN RStrip(SubSeq(s, 1, Len(s) - 1))
  ELSE s

\* str.strip()
Strip(s) == RStrip(LStrip(s))

\* '=' * n
Repeat(c, n) == [i \in 1..n |-> c]

RECURSIVE Flatten(_)
Flatten(ss) == IF ss = <<>> THEN <<>> ELSE Head(ss) \o Flatten(Tail(ss))

IsPrefix(p, s) == Len(p) <= Len(s) /\ SubSeq(s, 1, Len(p)) = p

Set(f, j, v) == [f EXCEPT ![j] = v]

----------------------------------------------------------------------------
(* Language codes *)

\* lines 232-341: the keys of supported_languages
supported_languages ==
  {<<"a", "f">>, <<"a", "m">>, <<"a", "r">>, <<"a", "z">>, <<"b", "e">>, <<"b", "g">>,
   <<"b", "n">>, <<"b", "s">>, <<"c", "a">>, <<"c", "e", "b">>, <<"c", "o">>, <<"c", "s">>,
   <<"c", "y">>, <<"d", "a">>, <<"d", "e">>, <<"e", "l">>, <<"e", "n">>, <<"e", "o">>,
   <<"e", "s">>, <<"e", "t">>, <<"e", "u">>, <<"f", "a">>, <<"f", "i">>, <<"f", "r">>,
   <<"f", "y">>, <<"g", "a">>, <<"g", "d">>, <<"g", "l">>, <<"g", "u">>, <<"h", "a">>,
   <<"h", "a", "w">>, <<"h", "e">>, <<"h", "i">>, <<"h", "m", "n">>, <<"h", "r">>, <<"h", "t">>,
   <<"h", "u">>, <<"h", "y">>, <<"i", "d">>, <<"i", "g">>, <<"i", "s">>, <<"i", "t">>,
   <<"i", "w">>, <<"j", "a">>, <<"j", "v">>, <<"k", "a">>, <<"k", "k">>, <<"k", "m">>,
   <<"k", "n">>, <<"k", "o">>, <<"k", "u">>, <<"k", "y">>, <<"l", "a">>, <<"l", "b">>,
   <<"l", "o">>, <<"l", "t">>, <<"l", "u">>, <<"l", "v">>, <<"m", "g">>, <<"m", "i">>,
   <<"m", "k">>, <<"m", "l">>, <<"m", "n">>, <<"m", "r">>, <<"m", "s">>, <<"m", "t">>,
   <<"m", "y">>, <<"n", "e">>, <<"n", "l">>, <<"n", "o">>, <<"n", "y">>, <<"o", "r">>,
   <<"p", "a">>, <<"p", "l">>, <<"p", "s">>, <<"p", "t">>, <<"r", "o">>, <<"r", "u">>,
   <<"s", "d">>, <<"s", "i">>, <<"s", "k">>, <<"s", "l">>, <<"s", "m">>, <<"s", "n">>,
   <<"s", "o">>, <<"s", "q">>, <<"s", "r">>, <<"s", "t">>, <<"s", "u">>, <<"s", "v">>,
   <<"s", "w">>, <<"t", "a">>, <<"t", "e">>, <<"t", "g">>, <<"t", "h">>, <<"t", "l">>,
   <<"t", "r">>, <<"u", "g">>, <<"u", "k">>, <<"u", "r">>, <<"u", "z">>, <<"v", "i">>,
   <<"w", "o">>, <<"x", "h">>, <<"y", "i">>, <<"y", "o">>, <<"z", "h">>, <<"z", "u">>}

zh == <<"z", "h">>
en == <<"e", "n">>

\* s[:2]
FirstTwo(s) == SubSeq(s, 1, IF Len(s) < 2 THEN Len(s) ELSE 2)

\* lines 77-78: the language fields of the request
RequestLanguages(source, target) ==
  [source_language |-> FirstTwo(source), target_language |-> FirstTwo(target)]

\* no request has been built
NoData == [source_language |-> <<>>, target_language |-> <<>>]

----------------------------------------------------------------------------
(* translate_text_segment *)

\* What the endpoint may answer as `text` with code 0: the text itself (an
\* echoing service), a translation padded with white space, or no text field
\* (response_json.get('text', '') then gives '').
Translations(t) == {t, <<" ", "b", "\n">>, <<>>}

IsBlank_emptyonly(t) == t = <<>>

\* line 70: `if not text.strip()`
IsBlank(t) == Strip(t) = <<>>

LoopTest_strict(a) == a < retries

\* line 86: `while attempt <= retries`
LoopTest(a) == a <= retries

\* line 109: `if attempt < retries` guards the sleep
SleepsAfter(a) == a < retries

\* an attempt ended with outcome o
Attempted(j, o) == outcomes' = Set(outcomes, j, Append(outcomes[j], o))

\* `return v` of translate_text_segment
Return(j, v) ==
  /\ result' = Set(result, j, v)
  /\ pc' = Set(pc, j, "returned")

\* an exception of kind e leaves translate_text_segment and, uncaught by
\* process_file, the job; the frame of the call is gone
Raise(j, e) ==
  /\ exc' = Set(exc, j, e)
  /\ pc' = Set(pc, j, "raised")
  /\ attempt' = Set(attempt, j, 0)
  /\ nreq' = Set(nreq, j, 0)
  /\ ndelay' = Set(ndelay, j, 0)
  /\ outcomes' = Set(outcomes, j, <<>>)
  /\ UNCHANGED result

\* lines 109-115: the sleep unless this was the last attempt, attempt += 1,
\* the loop test, and the final `return None`
Retry(j) ==
  /\ ndelay' = Set(ndelay, j, IF SleepsAfter(attempt[j]) THEN ndelay[j] + 1 ELSE ndelay[j])
  /\ attempt' = Set(attempt, j, attempt[j] + 1)
  /\ IF LoopTest(attempt[j] + 1)
     THEN /\ pc' = Set(pc, j, "request")
          /\ UNCHANGED result
     ELSE Return(j, None)

\* lines 70-85: the blank check, the request's data, then attempt = 0
TranslateEntry(j) ==
  /\ pc[j] = "translate"
  /\ attempt' = Set(attempt, j, 0)
  /\ nreq' = Set(nreq, j, 0)
  /\ ndelay' = Set(ndelay, j, 0)
  /\ outcomes' = Set(outcomes, j, <<>>)
  /\ IF IsBlank(text[j])
     THEN Return(j, <<>>)
     ELSE IF LoopTest(0)
          THEN /\ pc' = Set(pc, j, "request")
               /\ UNCHANGED result
          ELSE Return(j, None)
  /\ data' = Set(data, j, RequestLanguages(source_lang, target_lang))
  /\ UNCHANGED <<exc, text, readVars, fileVars, diskVars, mainVars, history, langVars>>

\* line 88: requests.post is called; the request is in flight
SendRequest(j) ==
  /\ pc[j] = "request"
  /\ nreq' = Set(nreq, j, nreq[j] + 1)
  /\ pc' = Set(pc, j, "await")
  /\ UNCHANGED <<exc, text, attempt, ndelay, outcomes, result,
                 readVars, fileVars, diskVars, mainVars, history, langVars, data>>

\* lines 106-112: a RequestException is caught and reported, and the loop goes
\* on. requests.post raises it (connection error, timeout); so does
\* response.json() of line 93 on a status-200 body that is not JSON, with
\* requests >= 2.27 (requests.exceptions.JSONDecodeError)
RecvException(j) ==
  /\ pc[j] = "await"
  /\ Attempted(j, "exception")
  /\ Retry(j)
  /\ UNCHANGED <<exc, text, nreq,
                 readVars, fileVars, diskVars, mainVars, history, langVars, data>>

\* lines 104-105: a response whose status is not 200 is logged and falls
\* through to the retry code
RecvNon200(j) ==
  /\ pc[j] = "await"
  /\ Attempted(j, "non200")
  /\ Retry(j)
  /\ UNCHANGED <<exc, text, nreq,
                 readVars, fileVars, diskVars, mainVars, history, langVars, data>>

\* line 93: status 200 and a body that is not JSON, with an older requests:
\* response.json() raises a plain ValueError, which line 106 does not catch
RecvBadJsonRaises(j) ==
  /\ pc[j] = "await"
  /\ Raise(j, "ValueError")
  /\ UNCHANGED <<text, readVars, fileVars, diskVars, mainVars, history, langVars, data>>

RecvSuccess_stripped(j) ==
  /\ pc[j] = "await"
  /\ Attempted(j, "ok")
  /\ \E t \in Translations(text[j]) : Return(j, Strip(t))
  /\ UNCHANGED <<exc, text, attempt, nreq, ndelay,
                 readVars, fileVars, diskVars, mainVars, history, langVars, data>>

\* lines 92-100: status 200, code 0: the body's text is returned
RecvSuccess(j) ==
  /\ pc[j] = "await"
  /\ Attempted(j, "ok")
  /\ \E t \in Translations(text[j]) : Return(j, t)
  /\ UNCHANGED <<exc, text, attempt, nreq, ndelay,
                 readVars, fileVars, diskVars, mainVars, history, langVars, data>>

\* lines 96-99: status 200, code 0 and "text": null; translated_text.strip()
\* raises AttributeError, which line 106 does not catch
RecvNullText(j) ==
  /\ pc[j] = "await"
  /\ Raise(j, "AttributeError")
  /\ UNCHANGED <<text, readVars, fileVars, diskVars, mainVars, history, langVars, data>>

RecvAppFailure_retry(j) ==
  /\ pc[j] = "await"
  /\ Attempted(j, "appfail")
  /\ Retry(j)
  /\ UNCHANGED <<exc, text, nreq, readVars, fileVars, diskVars, mainVars, history, langVars, data>>

\* lines 101-103: status 200 and a code other than 0 (or no code)
RecvAppFailure(j) ==
  /\ pc[j] = "await"
  /\ Attempted(j, "appfail")
  /\ Return(j, None)
  /\ UNCHANGED <<exc, text, attempt, nreq, ndelay,
                 readVars, fileVars, diskVars, mainVars, history, langVars, data>>

ClientStep(j) ==
  \/ TranslateEntry(j)
  \/ SendRequest(j)
  \/ RecvException(j)
  \/ RecvNon200(j)
  \/ RecvBadJsonRaises(j)
  \/ RecvSuccess(j)
  \/ RecvNullText(j)
  \/ RecvAppFailure(j)

----------------------------------------------------------------------------
(* Input files *)

\* Lines as file.readlines() yields them: each keeps its line ending, only
\* the last line of a file may lack one.
L_blank == <<"\n">>
L_ws    == <<" ", "\n">>
L_eq    == <<" ", "=", "=", "\n">>
L_txt   == <<"a", "\n">>
L_pad   == <<" ", "a", " ", "\n">>
L_mix   == <<"=", "a", "\n">>
InnerLines == {L_blank, L_ws, L_eq, L_txt, L_pad, L_mix}
LastLines  == InnerLines \cup {<<"a">>, <<"=">>}

RECURSIVE LineSeqs(_)
LineSeqs(n) ==
  IF n = 0 THEN {<<>>}
  ELSE LET shorter == LineSeqs(n - 1)
       IN shorter \cup
          {<<l>> : l \in LastLines} \cup
          {<<l>> \o ls : l \in InnerLines, ls \in (shorter \ {<<>>})}

\* line 36: the default of `fallback_encodings`
fallback_encodings == <<"utf-8", "gbk", "gb18030">>

\* What chardet.detect may report (line 34): nothing (the string "None"
\* stands for Python's None: open() then uses the locale's encoding), a name
\* that is also a fallback ("utf-8"), other codecs Python knows ("GB2312",
\* "ascii"), or a name Python has no codec for (chardet reports EUC-TW,
\* which codecs.lookup rejects).
Detected == {"None", "utf-8", "GB2312", "ascii", "EUC-TW"}

\* whether open(..., encoding=enc) finds a codec
KnownCodec(enc) == enc # "EUC-TW"

\* The bytes of a file decide which encodings decode them: GB2312 text is
\* GBK text, GBK text is GB18030 text, and ASCII text decodes under every
\* candidate.
EncProfiles ==
  {[detected |-> d, decodes |-> s] :
     d \in Detected, s \in SUBSET {"None", "utf-8", "GB2312", "gbk", "gb18030", "ascii"}}

ValidProfile(p) ==
  /\ p.decodes \subseteq ({p.detected} \cup {"utf-8", "gbk", "gb18030"})
  /\ ("GB2312" \in p.decodes => "gbk" \in p.decodes)
  /\ ("gbk" \in p.decodes => "gb18030" \in p.decodes)
  /\ ("ascii" \in p.decodes => {"utf-8", "gbk", "gb18030"} \subseteq p.decodes)

Utf8Profile == [detected |-> "utf-8", decodes |-> {"utf-8"}]

File(ls, p) == [lines |-> ls, detected |-> p.detected, decodes |-> p.decodes]

\* The files process_file is called on in SpecFile: every line sequence in a
\* plain UTF-8 file, and two line sequences under every encoding profile.
TestFiles ==
  {File(ls, Utf8Profile) : ls \in LineSeqs(MaxLines)} \cup
  {File(ls, p) : ls \in {<<>>, <<L_pad, L_eq>>},
                 p \in {q \in EncProfiles : ValidProfile(q)}}

----------------------------------------------------------------------------
(* The filesystem *)

Content(f, p) == IF p \in DOMAIN f THEN f[p] ELSE <<>>

\* the file at p extended by s
Appended(f, p, s) ==
  [q \in (DOMAIN f) \cup {p} |-> IF q = p THEN Content(f, p) \o s ELSE f[q]]

Path(dir, base) == [dir |-> dir, base |-> base]

\* os.makedirs(d): d and every missing ancestor
Ancestors(d) == {SubSeq(d, 1, n) : n \in 1..Len(d)}

----------------------------------------------------------------------------
(* read_file_with_fallback_encodings *)

\* lines 49-50: open(file_path, 'r', encoding=enc) and readlines()
OpenOutcome(f, enc) ==
  IF ~KnownCodec(enc) THEN "LookupError"
  ELSE IF enc \in f.decodes THEN "ok"
  ELSE "UnicodeDecodeError"

\* line 54: `if encoding == encodings_to_try[-1]`, a comparison of names
IsLastCandidate(encs, k) == encs[k] = encs[Len(encs)]

\* lines 44-45 (and lines 31-34)
DetectEncoding(j) ==
  /\ pc[j] = "read"
  /\ encodings_to_try' = Set(encodings_to_try, j, <<src[j].detected>> \o fallback_encodings)
  /\ tried' = Set(tried, j, <<>>)
  /\ pc' = Set(pc, j, "decode")
  /\ UNCHANGED <<exc, clientVars, fileVars, diskVars, mainVars, history, langVars, data>>

TryEncoding_raises(j) ==
  /\ pc[j] = "decode"
  /\ LET k == Len(tried[j]) + 1
         enc == encodings_to_try[j][k]
         outcome == OpenOutcome(src[j], enc)
     IN /\ tried' = Set(tried, j, Append(tried[j], <<enc, outcome>>))
        /\ IF outcome = "ok"
           THEN /\ lines' = Set(lines, j, src[j].lines)
                /\ pc' = Set(pc, j, "open")
                /\ UNCHANGED exc
           ELSE IF outcome = "UnicodeDecodeError" /\ ~IsLastCandidate(encodings_to_try[j], k)
           THEN /\ pc' = Set(pc, j, "decode")
                /\ UNCHANGED <<lines, exc>>
           ELSE /\ pc' = Set(pc, j, "raised")
                /\ exc' = Set(exc, j, outcome)
                /\ UNCHANGED lines
  /\ UNCHANGED <<clientVars, encodings_to_try, src, output_format, output_path,
                 line_number, translated_line, calls, translated, buffered, pre,
                 diskVars, mainVars, history, langVars, data>>

\* lines 47-56, one iteration; with lines 128-132 of process_file, which
\* catches whatever the reader raises, reports it and returns
TryEncoding(j) ==
  /\ pc[j] = "decode"
  /\ LET k == Len(tried[j]) + 1
         enc == encodings_to_try[j][k]
         outcome == OpenOutcome(src[j], enc)
     IN /\ tried' = Set(tried, j, Append(tried[j], <<enc, outcome>>))
        /\ IF outcome = "ok"
           THEN /\ lines' = Set(lines, j, src[j].lines)
                /\ pc' = Set(pc, j, "open")
           ELSE IF outcome = "UnicodeDecodeError" /\ ~IsLastCandidate(encodings_to_try[j], k)
           THEN /\ pc' = Set(pc, j, "decode")
                /\ UNCHANGED lines
           ELSE /\ pc' = Set(pc, j, "skipped")
                /\ UNCHANGED lines
  /\ UNCHANGED <<exc, clientVars, encodings_to_try, src, output_format, output_path,
                 line_number, translated_line, calls, translated, buffered, pre,
                 diskVars, mainVars, history, langVars, data>>

----------------------------------------------------------------------------
(* process_file *)

Formats == {"translation_only", "original_above_translation", "translation_above_original"}

\* line 117: the default of `output_format`
DefaultFormat == "original_above_translation"

OnlyEquals_unstripped(line) == line = Repeat("=", Len(line))

\* line 139: `line.strip() == '=' * len(line.strip())`
OnlyEquals(line) == Strip(line) = Repeat("=", Len(Strip(line)))

FormatRecord_stripped(fmt, line, tl) ==
  CASE fmt = "translation_only" -> Strip(tl) \o <<"\n">>
    [] fmt = "original_above_translation" -> Strip(line) \o <<"\n">> \o Strip(tl) \o <<"\n", "\n">>
    [] fmt = "translation_above_original" -> Strip(tl) \o <<"\n">> \o Strip(line) \o <<"\n", "\n">>

\* lines 147-152
FormatRecord(fmt, line, tl) ==
  CASE fmt = "translation_only" -> tl
    [] fmt = "original_above_translation" -> Strip(line) \o <<"\n">> \o Strip(tl) \o <<"\n", "\n">>
    [] fmt = "translation_above_original" -> Strip(tl) \o <<"\n">> \o Strip(line) \o <<"\n", "\n">>

\* lines 144-145
Fallback(res, line) == IF res = None THEN line ELSE res

\* every attempt of the current call ended in a RequestException
AllExceptions(j) ==
  /\ outcomes[j] # <<>>
  /\ \A i \in 1..Len(outcomes[j]) : outcomes[j][i] = "exception"

\* an entry of calls: the value translate_text_segment returned (NotCalled
\* for a line passed through), and whether it gave up after exceptions alone
Call(v, e) == [value |-> v, exhausted |-> e]

\* the line of the current iteration
Line(j) == lines[j][line_number[j] + 1]

OpenOutput_truncate(j) ==
  /\ pc[j] = "open"
  /\ output_path[j].dir \in dirs
  /\ pre' = Set(pre, j, Content(fs, output_path[j]))
  /\ fs' = [q \in (DOMAIN fs) \cup {output_path[j]} |->
             IF q = output_path[j] THEN <<>> ELSE fs[q]]
  /\ pc' = Set(pc, j, "loop")
  /\ line_number' = Set(line_number, j, 0)
  /\ calls' = Set(calls, j, <<>>)
  /\ translated' = Set(translated, j, <<>>)
  /\ buffered' = Set(buffered, j, <<>>)
  /\ UNCHANGED <<exc, clientVars, readVars, src, output_format, output_path, lines,
                 translated_line, dirs, mainVars, history, langVars, data>>

\* line 134: open(output_path, 'a'): creates the file when missing, keeps
\* what it holds, fails when the directory is missing
OpenOutput(j) ==
  /\ pc[j] = "open"
  /\ IF output_path[j].dir \in dirs
     THEN /\ pre' = Set(pre, j, Content(fs, output_path[j]))
          /\ fs' = Appended(fs, output_path[j], <<>>)
          /\ pc' = Set(pc, j, "loop")
          /\ UNCHANGED exc
     ELSE /\ exc' = Set(exc, j, "FileNotFoundError")
          /\ pc' = Set(pc, j, "raised")
          /\ UNCHANGED <<pre, fs>>
  /\ line_number' = Set(line_number, j, 0)
  /\ calls' = Set(calls, j, <<>>)
  /\ translated' = Set(translated, j, <<>>)
  /\ buffered' = Set(buffered, j, <<>>)
  /\ UNCHANGED <<clientVars, readVars, src, output_format, output_path, lines,
                 translated_line, dirs, mainVars, history, langVars, data>>

\* lines 135-143: the next line, the all-equals test, and the call of
\* translate_text_segment; at the end of the lines the file is closed
NextLine(j) ==
  /\ pc[j] = "loop"
  /\ IF line_number[j] = Len(lines[j])
     THEN /\ pc' = Set(pc, j, "done")
          /\ UNCHANGED <<text, translated_line, calls>>
     ELSE IF OnlyEquals(Line(j))
     THEN /\ translated_line' = Set(translated_line, j, Line(j))
          /\ calls' = Set(calls, j, Append(calls[j], Call(NotCalled, FALSE)))
          /\ pc' = Set(pc, j, "format")
          /\ UNCHANGED text
     ELSE /\ text' = Set(text, j, Line(j))
          /\ pc' = Set(pc, j, "translate")
          /\ UNCHANGED <<translated_line, calls>>
  /\ UNCHANGED <<exc, attempt, nreq, ndelay, outcomes, result, readVars, src,
                 output_format, output_path, lines, line_number, translated,
                 buffered, pre, diskVars, mainVars, history, langVars, data>>

AfterTranslate_drop(j) ==
  /\ pc[j] = "returned"
  /\ translated_line' = Set(translated_line, j, Fallback(result[j], Line(j)))
  /\ calls' = Set(calls, j, Append(calls[j], Call(result[j], AllExceptions(j))))
  /\ IF result[j] = None
     THEN /\ line_number' = Set(line_number, j, line_number[j] + 1)
          /\ pc' = Set(pc, j, "loop")
     ELSE /\ pc' = Set(pc, j, "format")
          /\ UNCHANGED line_number
  /\ attempt' = Set(attempt, j, 0)
  /\ nreq' = Set(nreq, j, 0)
  /\ ndelay' = Set(ndelay, j, 0)
  /\ outcomes' = Set(outcomes, j, <<>>)
  /\ result' = Set(result, j, None)
  /\ UNCHANGED <<exc, text, readVars, src, output_format, output_path, lines,
                 translated, buffered, pre, diskVars, mainVars, history, langVars, data>>

\* lines 143-145: the value returned, or the line itself on None
AfterTranslate(j) ==
  /\ pc[j] = "returned"
  /\ translated_line' = Set(translated_line, j, Fallback(result[j], Line(j)))
  /\ calls' = Set(calls, j, Append(calls[j], Call(result[j], AllExceptions(j))))
  /\ pc' = Set(pc, j, "format")
  \* the frame of the call is gone
  /\ attempt' = Set(attempt, j, 0)
  /\ nreq' = Set(nreq, j, 0)
  /\ ndelay' = Set(ndelay, j, 0)
  /\ outcomes' = Set(outcomes, j, <<>>)
  /\ result' = Set(result, j, None)
  /\ UNCHANGED <<exc, text, readVars, src, output_format, output_path, lines,
                 line_number, translated, buffered, pre, diskVars, mainVars, history, langVars, data>>

\* lines 147-154: the record is formatted and written to the file object
WriteRecord(j) ==
  /\ pc[j] = "format"
  /\ buffered' = Set(buffered, j,
        buffered[j] \o FormatRecord(output_format[j], Line(j), translated_line[j]))
  /\ pc' = Set(pc, j, "flush")
  /\ UNCHANGED <<exc, clientVars, readVars, src, output_format, output_path, lines,
                 line_number, translated_line, calls, translated, pre, diskVars,
                 mainVars, history, langVars, data>>

Flush_lazy(j) ==
  /\ pc[j] = "flush"
  /\ translated' = Set(translated, j, Append(translated[j], translated_line[j]))
  /\ line_number' = Set(line_number, j, line_number[j] + 1)
  /\ pc' = Set(pc, j, "loop")
  /\ UNCHANGED <<exc, clientVars, readVars, src, output_format, output_path, lines,
                 translated_line, calls, pre, buffered, diskVars, mainVars, history,
                 langVars, data>>

\* line 155: flush(); the loop body is complete
Flush(j) ==
  /\ pc[j] = "flush"
  /\ fs' = Appended(fs, output_path[j], buffered[j])
  /\ buffered' = Set(buffered, j, <<>>)
  /\ translated' = Set(translated, j, Append(translated[j], translated_line[j]))
  /\ line_number' = Set(line_number, j, line_number[j] + 1)
  /\ pc' = Set(pc, j, "loop")
  /\ UNCHANGED <<exc, clientVars, readVars, src, output_format, output_path, lines,
                 translated_line, calls, pre, dirs, mainVars, history, langVars, data>>

FileStep(j) ==
  \/ DetectEncoding(j)
  \/ TryEncoding(j)
  \/ OpenOutput(j)
  \/ NextLine(j)
  \/ AfterTranslate(j)
  \/ WriteRecord(j)
  \/ Flush(j)

\* the records process_file builds for the lines ls and the translated lines ts
RECURSIVE Records(_, _, _)
Records(fmt, ls, ts) ==
  IF ts = <<>> THEN <<>>
  ELSE FormatRecord(fmt, Head(ls), Head(ts)) \o Records(fmt, Tail(ls), Tail(ts))

----------------------------------------------------------------------------
(* Initial states *)

OutRoot == <<"out">>
TestPath == Path(OutRoot, <<"f", ".", "t", "x", "t">>)
Junk == <<"z", "\n">>

NoFile == File(<<>>, Utf8Profile)

\* the main thread is not part of a direct call
NoMain ==
  /\ mainpc = "none"
  /\ output_format_code = 2
  /\ main_output_format = NoFormat
  /\ tree = <<>>
  /\ txt_files = <<>>
  /\ futures = <<>>
  /\ collected = <<>>
  /\ log = <<>>
  /\ history = [j \in Jobs |-> <<>>]

\* texts translate_text_segment is called with directly
TestTexts == LastLines \cup {<<>>, <<" ">>, <<"\n", " ">>}

\* lines 213-214: the languages the script is configured with
ConfiguredLanguages ==
  /\ source_lang = zh
  /\ target_lang = en

\* translate_text_segment(t, ...) called once, by job 1, for a text of T
InitCall(T) ==
  /\ \E t \in T :
       /\ pc = [j \in Jobs |-> IF j = 1 THEN "translate" ELSE "idle"]
       /\ text = [j \in Jobs |-> IF j = 1 THEN t ELSE <<>>]
  /\ data = [j \in Jobs |-> NoData]
  /\ exc = [j \in Jobs |-> "none"]
  /\ attempt = [j \in Jobs |-> 0]
  /\ nreq = [j \in Jobs |-> 0]
  /\ ndelay = [j \in Jobs |-> 0]
  /\ outcomes = [j \in Jobs |-> <<>>]
  /\ result = [j \in Jobs |-> None]
  /\ src = [j \in Jobs |-> NoFile]
  /\ output_format = [j \in Jobs |-> DefaultFormat]
  /\ output_path = [j \in Jobs |-> TestPath]
  /\ lines = [j \in Jobs |-> <<>>]
  /\ line_number = [j \in Jobs |-> 0]
  /\ translated_line = [j \in Jobs |-> <<>>]
  /\ calls = [j \in Jobs |-> <<>>]
  /\ translated = [j \in Jobs |-> <<>>]
  /\ buffered = [j \in Jobs |-> <<>>]
  /\ pre = [j \in Jobs |-> <<>>]
  /\ encodings_to_try = [j \in Jobs |-> <<>>]
  /\ tried = [j \in Jobs |-> <<>>]
  /\ fs = <<>>
  /\ dirs = {OutRoot}
  /\ NoMain

InitClient == InitCall(TestTexts) /\ ConfiguredLanguages

NextClient == ClientStep(1)

\* the configurations the validation of lines 344-348 accepts in which one
\* of the two languages is the configured one
LangPairs ==
  {<<s, en>> : s \in supported_languages} \cup {<<zh, t>> : t \in supported_languages}

\* translate_text_segment(text, source_lang, target_lang, ...) called once
\* with validated languages
InitLang ==
  /\ InitCall({L_txt, L_pad})
  /\ \E p \in LangPairs :
       /\ source_lang = p[1]
       /\ target_lang = p[2]

SpecLang == InitLang /\ [][NextClient]_vars

SpecClient == InitClient /\ [][NextClient]_vars

\* process_file(input_path, output_path, ..., output_format) called once, by
\* job 1, on an output path that is new or already holds text
InitFile ==
  /\ \E f \in TestFiles, fmt \in Formats :
       /\ src = [j \in Jobs |-> IF j = 1 THEN f ELSE NoFile]
       /\ output_format = [j \in Jobs |-> IF j = 1 THEN fmt ELSE DefaultFormat]
  /\ pc = [j \in Jobs |-> IF j = 1 THEN "read" ELSE "idle"]
  /\ exc = [j \in Jobs |-> "none"]
  /\ text = [j \in Jobs |-> <<>>]
  /\ attempt = [j \in Jobs |-> 0]
  /\ nreq = [j \in Jobs |-> 0]
  /\ ndelay = [j \in Jobs |-> 0]
  /\ outcomes = [j \in Jobs |-> <<>>]
  /\ result = [j \in Jobs |-> None]
  /\ output_path = [j \in Jobs |-> TestPath]
  /\ lines = [j \in Jobs |-> <<>>]
  /\ line_number = [j \in Jobs |-> 0]
  /\ translated_line = [j \in Jobs |-> <<>>]
  /\ calls = [j \in Jobs |-> <<>>]
  /\ translated = [j \in Jobs |-> <<>>]
  /\ buffered = [j \in Jobs |-> <<>>]
  /\ pre = [j \in Jobs |-> <<>>]
  /\ encodings_to_try = [j \in Jobs |-> <<>>]
  /\ tried = [j \in Jobs |-> <<>>]
  /\ fs \in {<<>>, [p \in {TestPath} |-> Junk]}
  /\ dirs = {OutRoot}
  /\ data = [j \in Jobs |-> NoData]
  /\ ConfiguredLanguages
  /\ NoMain

NextFile == FileStep(1) \/ ClientStep(1)

SpecFile == InitFile /\ [][NextFile]_vars

\* lines 134-155: the process is killed while the output file is open; what
\* was written to the file object and not flushed is lost
Crash(j) ==
  /\ pc[j] \in {"loop", "translate", "request", "await", "returned", "format", "flush"}
  /\ pc' = Set(pc, j, "crashed")
  /\ buffered' = Set(buffered, j, <<>>)
  /\ UNCHANGED <<exc, clientVars, readVars, src, output_format, output_path, lines,
                 line_number, translated_line, calls, translated, pre, diskVars,
                 mainVars, history, langVars, data>>

NextCrash == FileStep(1) \/ ClientStep(1) \/ Crash(1)

SpecCrash == InitFile /\ [][NextCrash]_vars

\* process_file called again on the same input and output path, once
Rerun(j) ==
  /\ pc[j] = "done"
  /\ history[j] = <<>>
  /\ history' = Set(history, j, <<[pre |-> pre[j], translated |-> translated[j]]>>)
  /\ pc' = Set(pc, j, "read")
  /\ UNCHANGED <<jobVars, diskVars, mainVars, langVars, data>>

RerunLines == {L_blank, L_eq, L_pad}

RECURSIVE SeqsOver(_, _)
SeqsOver(S, n) ==
  IF n = 0 THEN {<<>>}
  ELSE LET shorter == SeqsOver(S, n - 1)
       IN shorter \cup {<<l>> \o ls : l \in S, ls \in shorter}

InitRerun ==
  /\ InitFile
  /\ src[1].lines \in SeqsOver(RerunLines, MaxLines)
  /\ src[1].decodes = Utf8Profile.decodes
  /\ src[1].detected = Utf8Profile.detected

NextRerun == FileStep(1) \/ ClientStep(1) \/ Rerun(1)

SpecRerun == InitRerun /\ [][NextRerun]_vars

----------------------------------------------------------------------------
(* __main__ and create_translated_directory_structure *)

\* str.endswith
EndsWith(s, suffix) ==
  /\ Len(suffix) <= Len(s)
  /\ SubSeq(s, Len(s) - Len(suffix) + 1, Len(s)) = suffix

DotTxt == <<".", "t", "x", "t">>

\* line 167: `file.endswith(".txt")`
IsTxt(entry) == EndsWith(entry.base, DotTxt)

\* lines 164-169: the .txt files in os.walk order
find_txt_files(t) == SelectSeq(t, IsTxt)

\* lines 219-223
output_format_mapping(code) ==
  CASE code = 1 -> "translation_only"
    [] code = 2 -> "original_above_translation"
    [] code = 3 -> "translation_above_original"
    [] OTHER -> NoFormat

\* lines 190-191: output_folder joined with the directory of the file
\* relative to input_folder
OutputDir(entry) == OutRoot \o entry.rel

OutputPath_flat(entry) == Path(OutRoot, entry.base)

\* line 197
OutputPath(entry) == Path(OutputDir(entry), entry.base)

\* line 198: the arguments executor.submit passes on to process_file; the
\* call names no output_format, so the default of line 117 applies
SubmittedFormat(selected) == DefaultFormat

\* lines 216-229 and 344-348: the format code is mapped; an unknown code and
\* an unsupported language are fatal
MainConfig ==
  /\ mainpc = "start"
  /\ main_output_format' = output_format_mapping(output_format_code)
  /\ mainpc' = IF \/ output_format_mapping(output_format_code) = NoFormat
                  \/ source_lang \notin supported_languages
                  \/ target_lang \notin supported_languages
               THEN "config_error" ELSE "mkdir"
  /\ UNCHANGED <<pc, jobVars, diskVars, output_format_code, tree, txt_files,
                 futures, collected, log, history, langVars, data>>

\* lines 350-353: the output folder is created when it does not exist
MainMkdir ==
  /\ mainpc = "mkdir"
  /\ dirs' = dirs \cup Ancestors(OutRoot)
  /\ log' = IF OutRoot \in dirs THEN log ELSE Append(log, <<"mkdir", OutRoot>>)
  /\ mainpc' = "find"
  /\ UNCHANGED <<pc, jobVars, fs, output_format_code, main_output_format, tree,
                 txt_files, futures, collected, history, langVars, data>>

FindFiles_silent ==
  /\ mainpc = "find"
  /\ txt_files' = find_txt_files(tree)
  /\ mainpc' = IF find_txt_files(tree) = <<>> THEN "end" ELSE "submit"
  /\ UNCHANGED <<pc, jobVars, diskVars, output_format_code, main_output_format,
                 tree, futures, collected, log, history, langVars, data>>

\* lines 181-185: discovery; with no .txt file the run reports it and returns
FindFiles ==
  /\ mainpc = "find"
  /\ txt_files' = find_txt_files(tree)
  /\ IF find_txt_files(tree) = <<>>
     THEN /\ log' = Append(log, <<"no_txt_files">>)
          /\ mainpc' = "end"
     ELSE /\ mainpc' = "submit"
          /\ UNCHANGED log
  /\ UNCHANGED <<pc, jobVars, diskVars, output_format_code, main_output_format,
                 tree, futures, collected, history, langVars, data>>

\* lines 189-199, one iteration: the mirrored directory is created when
\* missing and process_file is submitted for the file
Submit ==
  /\ mainpc = "submit"
  /\ LET k == Len(futures) + 1
         entry == txt_files[k]
     IN /\ dirs' = dirs \cup Ancestors(OutputDir(entry))
        /\ log' = IF OutputDir(entry) \in dirs THEN log
                  ELSE Append(log, <<"mkdir", OutputDir(entry)>>)
        /\ src' = Set(src, k, entry.file)
        /\ output_path' = Set(output_path, k, OutputPath(entry))
        /\ output_format' = Set(output_format, k, SubmittedFormat(main_output_format))
        /\ pc' = Set(pc, k, "queued")
        /\ futures' = Append(futures, k)
        /\ mainpc' = IF k = Len(txt_files) THEN "collect" ELSE "submit"
  /\ UNCHANGED <<exc, clientVars, readVars, lines, line_number, translated_line,
                 calls, translated, buffered, pre, fs, output_format_code,
                 main_output_format, tree, txt_files, collected, history, langVars, data>>

Running == {"read", "decode", "open", "loop", "translate", "request", "await",
            "returned", "format", "flush"}
Finished_noraise == {"done", "skipped"}

\* lines 201-204: the states of a job whose future as_completed yields
Finished == {"done", "skipped", "raised"}

StartJob_unbounded(j) ==
  /\ pc[j] = "queued"
  /\ \A i \in Jobs : i < j => pc[i] # "queued"
  /\ pc' = Set(pc, j, "read")
  /\ UNCHANGED <<jobVars, diskVars, mainVars, history, langVars, data>>

\* line 187: a worker thread of the pool takes the oldest queued job
StartJob(j) ==
  /\ pc[j] = "queued"
  /\ \A i \in Jobs : i < j => pc[i] # "queued"
  /\ Cardinality({i \in Jobs : pc[i] \in Running}) < max_workers
  /\ pc' = Set(pc, j, "read")
  /\ UNCHANGED <<jobVars, diskVars, mainVars, history, langVars, data>>

Collect_uncaught(j) ==
  /\ mainpc = "collect"
  /\ pc[j] \in Finished
  /\ \A i \in 1..Len(collected) : collected[i] # j
  /\ collected' = Append(collected, j)
  /\ log' = Append(log, <<IF pc[j] = "raised" THEN "error" ELSE "translated", j>>)
  /\ mainpc' = IF Len(collected) + 1 = Len(futures) \/ pc[j] = "raised"
               THEN "end" ELSE "collect"
  /\ UNCHANGED <<pc, jobVars, diskVars, output_format_code, main_output_format,
                 tree, txt_files, futures, history, langVars, data>>

\* lines 201-207, one iteration: as_completed yields a finished job, its
\* result is taken and the outcome is reported
Collect(j) ==
  /\ mainpc = "collect"
  /\ pc[j] \in Finished
  /\ \A i \in 1..Len(collected) : collected[i] # j
  /\ collected' = Append(collected, j)
  /\ log' = Append(log, <<IF pc[j] = "raised" THEN "error" ELSE "translated", j>>)
  /\ mainpc' = IF Len(collected) + 1 = Len(futures) THEN "end" ELSE "collect"
  /\ UNCHANGED <<pc, jobVars, diskVars, output_format_code, main_output_format,
                 tree, txt_files, futures, history, langVars, data>>

\* The input tree: files in os.walk order, each with its directory relative
\* to input_folder, its name and its bytes.
F_hello == File(<<L_txt, L_eq>>, Utf8Profile)
F_pad   == File(<<L_pad>>, [detected |-> "None", decodes |-> {"utf-8", "gbk", "gb18030"}])
F_bad   == File(<<>>, [detected |-> "ascii", decodes |-> {}])

TreeCandidates ==
  << [rel |-> <<>>, base |-> <<"n", ".", "m", "d">>, file |-> F_pad],
     [rel |-> <<>>, base |-> <<"b", ".", "t", "x", "t">>, file |-> F_hello],
     [rel |-> <<"a">>, base |-> <<"b", ".", "t", "x", "t">>, file |-> F_pad],
     [rel |-> <<"a">>, base |-> <<"c", ".", "t", "x", "t">>, file |-> F_bad] >>

RECURSIVE Pick(_, _, _)
\* the entries of cands whose index is in S, from index i on, in order
Pick(cands, S, i) ==
  IF i > Len(cands) THEN <<>>
  ELSE (IF i \in S THEN <<cands[i]>> ELSE <<>>) \o Pick(cands, S, i + 1)

Trees ==
  {t \in {Pick(TreeCandidates, S, 1) : S \in SUBSET (1..Len(TreeCandidates))} :
     Len(find_txt_files(t)) <= MaxFiles}

\* the script is started on one of the input trees T
InitTree(T) ==
  /\ pc = [j \in Jobs |-> "idle"]
  /\ exc = [j \in Jobs |-> "none"]
  /\ text = [j \in Jobs |-> <<>>]
  /\ attempt = [j \in Jobs |-> 0]
  /\ nreq = [j \in Jobs |-> 0]
  /\ ndelay = [j \in Jobs |-> 0]
  /\ outcomes = [j \in Jobs |-> <<>>]
  /\ result = [j \in Jobs |-> None]
  /\ src = [j \in Jobs |-> NoFile]
  /\ output_format = [j \in Jobs |-> DefaultFormat]
  /\ output_path = [j \in Jobs |-> TestPath]
  /\ lines = [j \in Jobs |-> <<>>]
  /\ line_number = [j \in Jobs |-> 0]
  /\ translated_line = [j \in Jobs |-> <<>>]
  /\ calls = [j \in Jobs |-> <<>>]
  /\ translated = [j \in Jobs |-> <<>>]
  /\ buffered = [j \in Jobs |-> <<>>]
  /\ pre = [j \in Jobs |-> <<>>]
  /\ encodings_to_try = [j \in Jobs |-> <<>>]
  /\ tried = [j \in Jobs |-> <<>>]
  /\ \/ dirs = {} /\ fs = <<>>
     \/ dirs = {OutRoot} /\ fs = [p \in {OutputPath(TreeCandidates[2])} |-> Junk]
  /\ mainpc = "start"
  /\ output_format_code \in 1..4
  /\ main_output_format = NoFormat
  /\ tree \in T
  /\ txt_files = <<>>
  /\ futures = <<>>
  /\ collected = <<>>
  /\ log = <<>>
  /\ history = [j \in Jobs |-> <<>>]
  /\ data = [j \in Jobs |-> NoData]
  /\ ConfiguredLanguages

Init == InitTree(Trees)

MainStep == MainConfig \/ MainMkdir \/ FindFiles \/ Submit

JobStep(j) == StartJob(j) \/ FileStep(j) \/ ClientStep(j) \/ Collect(j)

Next == MainStep \/ \E j \in Jobs : JobStep(j)

Spec == Init /\ [][Next]_vars

\* A file chardet reports an encoding for that Python has no codec for
F_unknown == File(<<L_txt>>, [detected |-> "EUC-TW", decodes |-> {"gbk", "gb18030"}])
F_two     == File(<<L_txt, L_pad>>, Utf8Profile)

\* more files than the pool has workers, in one directory: p.txt, pp.txt, ...
PoolTree ==
  [k \in 1..MaxJobs |-> [rel |-> <<>>, base |-> Repeat("p", k) \o DotTxt, file |-> F_unknown]]

\* one file of two lines that are both sent to the endpoint
TwoLineTree ==
  << [rel |-> <<>>, base |-> <<"b", ".", "t", "x", "t">>, file |-> F_two] >>

InitPool ==
  /\ InitTree({PoolTree, TwoLineTree})
  /\ output_format_code = 2
  /\ dirs = {OutRoot}

SpecPool == InitPool /\ [][Next]_vars

\* Every thread keeps running: the main thread, and each job, whose worker
\* thread is scheduled and whose request returns a response or raises within
\* its timeout (line 88, timeout=30); as_completed yields a finished job.
Fairness ==
  /\ WF_vars(MainStep)
  /\ \A j \in Jobs : WF_vars(JobStep(j))

\* the runs of the script as configured (format code 2), and of one with an
\* unknown format code, into a new output folder
InitLive ==
  /\ Init
  /\ output_format_code \in {2, 4}
  /\ dirs = {}

SpecLive == InitLive /\ [][Next]_vars /\ Fairness

----------------------------------------------------------------------------
(* Properties *)

\* the job has opened its output file and has not been left by an exception
Opened(j) ==
  pc[j] \in {"loop", "translate", "request", "await", "returned", "format", "flush", "done"}

\* translate_text_segment is executing for the job
InCall(j) == pc[j] \in {"translate", "request", "await", "returned"}

\* how the translated_line of the current iteration was obtained
CurCall(j) == calls[j][line_number[j] + 1]

\* the trimmed line is one or more '=' and nothing else
NonEmptyEquals(l) ==
  /\ Strip(l) # <<>>
  /\ \A i \in 1..Len(Strip(l)) : Strip(l)[i] = "="

\* the attempts of the current call that were followed by a sleep or by
\* another request
FollowedUp(j) ==
  {i \in 1..Len(outcomes[j]) : i < nreq[j] \/ i <= ndelay[j]}

MkdirsLogged == {i \in 1..Len(log) : log[i][1] = "mkdir"}

\* C1: when every attempt for a line raises, translate_text_segment makes
\* exactly retries + 1 = 3 requests with one sleep between consecutive
\* requests (2 sleeps, none after the last attempt) and returns None, and
\* process_file then uses the line itself as the translated text of the
\* record it writes.
C1_RetryBound ==
  \A j \in Jobs :
    /\ (pc[j] = "await" /\ (outcomes[j] = <<>> \/ AllExceptions(j)))
         => (nreq[j] <= retries + 1 /\ ndelay[j] = nreq[j] - 1)
    /\ (pc[j] = "returned" /\ AllExceptions(j))
         => (nreq[j] = retries + 1 /\ ndelay[j] = retries /\ result[j] = None)
    /\ (pc[j] \in {"format", "flush"} /\ CurCall(j).exhausted)
         => (translated_line[j] = Line(j) /\ CurCall(j).value = None)
    /\ (pc[j] = "flush" /\ CurCall(j).exhausted)
         => buffered[j] = FormatRecord(output_format[j], Line(j), Line(j))

C1_Witness ==
  /\ pc[1] = "flush"
  /\ CurCall(1).exhausted
  /\ ~IsBlank(Line(1))
  /\ output_format[1] = "translation_above_original"
  /\ buffered[1] = Strip(Line(1)) \o <<"\n">> \o Strip(Line(1)) \o <<"\n", "\n">>

\* C2 as stated: an attempt is followed by a sleep or by another request
\* only if it raised a transport exception; after any HTTP response nothing
\* more is sent.
C2_RetryOnExceptionOnly ==
  \A j \in Jobs : \A i \in FollowedUp(j) : outcomes[j][i] = "exception"

\* C2 amended: an attempt is followed by a sleep or by another request only
\* if it ended in a RequestException or in a status other than 200; an
\* attempt answered with status 200 and a JSON body is the last one of the
\* call, with no sleep after it.
C2_RetryOnExceptionOrNon200 ==
  \A j \in Jobs :
    /\ \A i \in FollowedUp(j) : outcomes[j][i] \in {"exception", "non200"}
    /\ \A i \in 1..Len(outcomes[j]) :
         outcomes[j][i] \in {"ok", "appfail"}
           => (i = Len(outcomes[j]) /\ nreq[j] = i /\ ndelay[j] = i - 1 /\ pc[j] = "returned")

C2_Witness ==
  /\ pc[1] = "returned"
  /\ outcomes[1] = <<"non200", "appfail">>
  /\ nreq[1] = 2
  /\ ndelay[1] = 1

\* C3: for a text that is empty after trimming, translate_text_segment
\* returns "" without any request, and no request in flight carries such a
\* text.
C3_BlankNeverSent ==
  \A j \in Jobs :
    /\ (pc[j] = "returned" /\ Strip(text[j]) = <<>>) => (result[j] = <<>> /\ nreq[j] = 0)
    /\ (pc[j] \in {"request", "await"} \/ nreq[j] > 0) => Strip(text[j]) # <<>>

C3_Witness ==
  /\ pc[1] = "returned"
  /\ text[1] = <<"\n", " ">>
  /\ result[1] = <<>>
  /\ nreq[1] = 0

\* C4 as stated: the record written for a line of '=' alone is the line
\* itself, byte for byte, in every output format.
C4_EqualsLineIdentical ==
  \A j \in Jobs :
    (pc[j] = "flush" /\ NonEmptyEquals(Line(j))) => buffered[j] = Line(j)

\* C4 amended: for a line of '=' alone translate_text_segment is not called
\* and the line itself is the translated text; the record is the line, byte
\* for byte, in the format translation_only, and trim(line) twice, each
\* followed by a newline, and an empty line in the two paired formats.
C4_EqualsLinePassedThrough ==
  \A j \in Jobs :
    /\ InCall(j) => ~NonEmptyEquals(Line(j))
    /\ (pc[j] \in {"format", "flush"} /\ NonEmptyEquals(Line(j)))
         => (translated_line[j] = Line(j) /\ CurCall(j).value = NotCalled)
    /\ (pc[j] = "flush" /\ NonEmptyEquals(Line(j)))
         => buffered[j] =
              IF output_format[j] = "translation_only" THEN Line(j)
              ELSE Strip(Line(j)) \o <<"\n">> \o Strip(Line(j)) \o <<"\n", "\n">>

C4_Witness ==
  /\ pc[1] = "flush"
  /\ Line(1) = L_eq
  /\ output_format[1] = "original_above_translation"
  /\ buffered[1] = <<"=", "=", "\n", "=", "=", "\n", "\n">>

\* C5: every record a job of the run writes has the shape of the format that
\* output_format_code selected at startup.
C5_SelectedFormatApplied ==
  \A j \in Jobs :
    pc[j] = "flush" =>
      buffered[j] = FormatRecord(main_output_format, Line(j), translated_line[j])

\* C6: process_file appends one record per line, in the order of the lines,
\* the i-th built from the i-th line and from its translated text (the
\* returned text, or the line itself on failure or pass-through); when it is
\* done it has written a record for every line.
C6_OneRecordPerLineInOrder ==
  \A j \in Jobs :
    Opened(j) =>
      /\ Len(translated[j]) = line_number[j]
      /\ line_number[j] <= Len(lines[j])
      /\ Content(fs, output_path[j]) =
           pre[j] \o Records(output_format[j], lines[j], translated[j])
      /\ \A i \in 1..Len(translated[j]) :
           translated[j][i] \in
             (IF calls[j][i].value \in {NotCalled, None}
              THEN {lines[j][i]} ELSE {calls[j][i].value})
      /\ (pc[j] = "done" => line_number[j] = Len(lines[j]))

C6_Witness ==
  /\ pc[1] = "done"
  /\ lines[1] = <<L_pad, L_mix>>
  /\ calls[1][1].value = <<" ", "b", "\n">>
  /\ calls[1][2].value = None
  /\ output_format[1] = "original_above_translation"
  /\ Content(fs, TestPath) =
       Junk \o <<"a", "\n", "b", "\n", "\n">> \o <<"=", "a", "\n", "=", "a", "\n", "\n">>

\* every call of translate_text_segment so far returned its argument
EchoClient(j) ==
  \A i \in 1..Len(calls[j]) : calls[j][i].value \in {NotCalled, lines[j][i]}

\* C7: in the format translation_only, when every call of the translation
\* client returns its text unchanged, what process_file has appended equals
\* the lines of the input file, line for line.
C7_RoundTrip ==
  \A j \in Jobs :
    (pc[j] = "done" /\ output_format[j] = "translation_only" /\ EchoClient(j))
      => /\ translated[j] = lines[j]
         /\ Content(fs, output_path[j]) = pre[j] \o Flatten(lines[j])

C7_Witness ==
  /\ pc[1] = "done"
  /\ output_format[1] = "translation_only"
  /\ lines[1] = <<L_ws, L_pad>>
  /\ calls[1][2].value = L_pad
  /\ Content(fs, TestPath) = <<" ", "\n", " ", "a", " ", "\n">>

\* C8: the output file is an append log: what it held when a job opened it
\* stays an unchanged prefix, the records of an earlier run stay in place,
\* and a second run on the same path ends with the earlier content followed
\* by the records of the first run and then those of the second.
C8_AppendLog ==
  \A j \in Jobs :
    /\ Opened(j) => IsPrefix(pre[j], Content(fs, output_path[j]))
    /\ \A r \in 1..Len(history[j]) :
         IsPrefix(history[j][r].pre
                    \o Records(output_format[j], src[j].lines, history[j][r].translated),
                  Content(fs, output_path[j]))
    /\ (pc[j] = "done" /\ history[j] # <<>>)
         => Content(fs, output_path[j]) =
              history[j][1].pre
                \o Records(output_format[j], lines[j], history[j][1].translated)
                \o Records(output_format[j], lines[j], translated[j])

C8_Witness ==
  /\ pc[1] = "done"
  /\ history[1] # <<>>
  /\ history[1][1].pre = Junk
  /\ lines[1] = <<L_eq>>
  /\ output_format[1] = "translation_only"
  /\ Content(fs, TestPath) = Junk \o L_eq \o L_eq

\* C9: the reader tries the detected encoding, utf-8, gbk and gb18030 in
\* that order, stops at the first that decodes, and fails only after all
\* four were tried and none decoded.
C9_AllCandidatesTried ==
  \A j \in Jobs :
    LET cands == <<src[j].detected>> \o fallback_encodings
        n == Len(tried[j])
    IN /\ n <= Len(cands)
       /\ \A i \in 1..n : tried[j][i][1] = cands[i]
       /\ \A i \in 1..(n - 1) : tried[j][i][2] # "ok"
       /\ (pc[j] = "skipped" =>
             /\ n = Len(cands)
             /\ \A i \in 1..n : tried[j][i][2] = "UnicodeDecodeError")

\* C10 as stated: with no .txt file in the input tree the run creates no
\* directory at all, not even the output folder.
C10_NoDirectoryCreated ==
  (mainpc = "end" /\ find_txt_files(tree) = <<>>) => MkdirsLogged = {}

\* C10 amended: with no .txt file in the input tree the run reports that
\* none was found, creates and submits no job and ends normally; the
\* dispatcher creates no directory, and the only directory the run can have
\* created is the output folder itself, which startup creates when missing.
C10_NoJobNoMirroredDirectory ==
  (find_txt_files(tree) = <<>> /\ output_format_code \in 1..3) =>
    /\ mainpc \in {"start", "mkdir", "find", "end"}
    /\ futures = <<>>
    /\ \A j \in Jobs : pc[j] = "idle"
    /\ dirs \subseteq {OutRoot}
    /\ \A i \in MkdirsLogged : log[i] = <<"mkdir", OutRoot>> /\ i = 1
    /\ (mainpc = "end" =>
          /\ log[Len(log)] = <<"no_txt_files">>
          /\ Len(log) = Cardinality(MkdirsLogged) + 1
          /\ OutRoot \in dirs)
    /\ (mainpc # "end" => \A i \in 1..Len(log) : log[i] # <<"no_txt_files">>)

C10_Witness ==
  /\ mainpc = "end"
  /\ tree # <<>>
  /\ find_txt_files(tree) = <<>>
  /\ log = << <<"mkdir", OutRoot>>, <<"no_txt_files">> >>
  /\ dirs = {OutRoot}

\* the outcomes the dispatcher has reported, in order
Reported == SelectSeq(log, LAMBDA e : e[1] \in {"error", "translated"})

\* C11: every discovered .txt file gets exactly one job, in discovery order;
\* an exception that leaves a job stays with that job and is reported for it
\* alone; each job's outcome is collected once, only after the job has
\* finished, and when the dispatcher returns the jobs collected are exactly
\* the discovered files, whatever the order of completion.
C11_OneJobPerFileAllCollected ==
  /\ Len(futures) <= Len(txt_files)
  /\ \A k \in 1..Len(futures) :
       /\ futures[k] = k
       /\ src[k] = txt_files[k].file
       /\ output_path[k] = OutputPath(txt_files[k])
  /\ \A j \in Jobs : (pc[j] # "idle") <=> (j \in 1..Len(futures))
  /\ \A j \in Jobs : (exc[j] # "none") <=> (pc[j] = "raised")
  /\ \A i \in 1..Len(collected) :
       /\ collected[i] \in 1..Len(futures)
       /\ pc[collected[i]] \in {"done", "skipped", "raised"}
       /\ \A k \in 1..Len(collected) : collected[k] = collected[i] => k = i
  /\ Len(Reported) = Len(collected)
  /\ \A i \in 1..Len(collected) :
       Reported[i] = <<IF exc[collected[i]] # "none" THEN "error" ELSE "translated",
                       collected[i]>>
  /\ (mainpc \in {"collect", "end"} /\ txt_files # <<>>) => Len(futures) = Len(txt_files)
  /\ (mainpc = "end" /\ txt_files # <<>>) =>
       /\ Len(collected) = Len(txt_files)
       /\ {collected[i] : i \in 1..Len(collected)} = 1..Len(txt_files)

C11_Witness ==
  /\ mainpc = "end"
  /\ collected = <<2, 1>>
  /\ exc[1] = "AttributeError"
  /\ line_number[1] = 0
  /\ pc[2] = "done"
  /\ Content(fs, output_path[2]) = <<"a", "\n", "b", "\n", "\n">>
  /\ Reported = << <<"translated", 2>>, <<"error", 1>> >>

\* translate_text_segment is not executing for any job, every job that was
\* submitted has finished, normally or by raising, and the main thread has
\* ended (after the dispatcher returned, or at the configuration error)
RunComplete ==
  /\ mainpc \in {"end", "config_error"}
  /\ \A j \in Jobs : pc[j] \in {"idle", "done", "skipped", "raised"}

\* C12: with every request answered or raising, the run completes: no call
\* of translate_text_segment makes more than retries + 1 requests, and
\* eventually every call has ended, every submitted job has finished,
\* normally or by raising, and the main thread has reached its end, which
\* it never does while a job is still unfinished.
C12_RunCompletes ==
  /\ <>[]RunComplete
  /\ [](\A j \in Jobs : nreq[j] <= retries + 1 /\ attempt[j] <= retries + 1)
  /\ [](mainpc = "end" => RunComplete)

C12_Witness ==
  /\ mainpc = "end"
  /\ Len(futures) = 2
  /\ pc[1] = "raised"
  /\ exc[1] = "ValueError"
  /\ pc[2] = "skipped"
  /\ Len(tried[2]) = 4
  /\ Len(collected) = 2

\* the jobs a worker thread is executing
Executing == {j \in Jobs : pc[j] \in {"read", "decode", "open", "loop", "translate",
                                     "request", "await", "returned", "format", "flush"}}

\* the requests of the job's current call that are sent and not yet answered
InFlight(j) == nreq[j] - Len(outcomes[j])

\* C13: at most 5 jobs are executing at any moment; a job has at most one
\* request in flight; and while the request for a line is being prepared or
\* is in flight, the records of all earlier lines, and nothing else of this
\* job, have been written and flushed to its output file.
C13_PoolAndLineOrder ==
  /\ Cardinality(Executing) <= 5
  /\ \A j \in Jobs :
       /\ InFlight(j) \in {0, 1}
       /\ (InFlight(j) = 1) <=> (pc[j] = "await")
       /\ pc[j] \in {"translate", "request", "await"} =>
            /\ text[j] = lines[j][line_number[j] + 1]
            /\ Len(translated[j]) = line_number[j]
            /\ buffered[j] = <<>>
            /\ Content(fs, output_path[j]) =
                 pre[j] \o Records(output_format[j], lines[j], translated[j])

C13_Witness ==
  /\ Cardinality(Executing) = 5
  /\ mainpc = "collect"
  /\ Len(futures) = MaxJobs
  /\ pc[MaxJobs] = "queued"
  /\ ~ENABLED StartJob(MaxJobs)

\* C14: an attempt answered with status 200 and a code other than 0 ends
\* the call at once with None, and one answered with code 0 ends it at once
\* with the body's text: the request of that attempt is the last one, no
\* sleep follows it and attempt is not incremented, whatever number of
\* retries is left; when it is the first attempt, the call has made exactly
\* one request and has not slept.
C14_Status200EndsCall ==
  \A j \in Jobs : \A i \in 1..Len(outcomes[j]) :
    outcomes[j][i] \in {"appfail", "ok"} =>
      /\ i = Len(outcomes[j])
      /\ pc[j] = "returned"
      /\ nreq[j] = i
      /\ ndelay[j] = i - 1
      /\ attempt[j] = i - 1
      /\ attempt[j] <= retries
      /\ outcomes[j][i] = "appfail" => result[j] = None
      /\ outcomes[j][i] = "ok" => result[j] \in Translations(text[j])

C14_Witness ==
  /\ pc[1] = "returned"
  /\ outcomes[1] = <<"appfail">>
  /\ result[1] = None
  /\ nreq[1] = 1
  /\ ndelay[1] = 0
  /\ attempt[1] = 0

\* C15: when a job is interrupted while it processes line k, the output
\* file durably holds what it held before, followed by the complete records
\* of lines 1..k-1 in order; at any moment the text written and not yet
\* flushed is at most the record of the current line.
C15_FlushedPerLine ==
  \A j \in Jobs :
    /\ pc[j] = "crashed" =>
         /\ Len(translated[j]) = line_number[j]
         /\ line_number[j] <= Len(lines[j])
         /\ Content(fs, output_path[j]) =
              pre[j] \o Records(output_format[j], lines[j], translated[j])
    /\ buffered[j] # <<>> =>
         /\ pc[j] = "flush"
         /\ buffered[j] = FormatRecord(output_format[j], Line(j), translated_line[j])

C15_Witness ==
  /\ pc[1] = "crashed"
  /\ lines[1] = <<L_pad, L_mix>>
  /\ line_number[1] = 1
  /\ Len(calls[1]) = 2
  /\ translated_line[1] = L_mix
  /\ output_format[1] = "translation_above_original"
  /\ Content(fs, TestPath) = Junk \o <<"b", "\n", "a", "\n", "\n">>

\* none of the candidates, the detected encoding and the three fallbacks,
\* decodes the file
NoCandidateDecodes(f) ==
  \A enc \in {f.detected} \cup {fallback_encodings[i] : i \in 1..Len(fallback_encodings)} :
    OpenOutcome(f, enc) # "ok"

\* C16: the job of a file that no candidate encoding decodes never raises,
\* never opens or creates its output file and never calls the translation
\* client: process_file returns with the file skipped; and a job that runs
\* to its end beside a skipped one has written a record for every line of
\* its own file, after what that file held before.
C16_UndecodableFileSkipped ==
  \A j \in 1..Len(futures) :
    /\ NoCandidateDecodes(src[j]) =>
         /\ pc[j] \in {"queued", "read", "decode", "skipped"}
         /\ exc[j] = "none"
         /\ output_path[j] \notin DOMAIN fs
         /\ nreq[j] = 0
         /\ calls[j] = <<>>
         /\ data[j] = NoData
    /\ pc[j] = "skipped" =>
         /\ exc[j] = "none"
         /\ tried[j] # <<>>
         /\ \A i \in 1..Len(tried[j]) : tried[j][i][2] # "ok"
         /\ \A i \in 1..Len(futures) :
              pc[i] = "done" =>
                /\ Len(translated[i]) = Len(src[i].lines)
                /\ Content(fs, output_path[i]) =
                     pre[i] \o Records(output_format[i], src[i].lines, translated[i])

C16_Witness ==
  /\ mainpc = "end"
  /\ Len(futures) = 2
  /\ src[2] = F_bad
  /\ pc[2] = "skipped"
  /\ Len(tried[2]) = 4
  /\ output_path[2] \notin DOMAIN fs
  /\ pc[1] = "done"
  /\ src[1] = F_hello
  /\ Content(fs, output_path[1]) =
       Junk \o <<"a", "\n", "a", "\n", "\n">> \o <<"=", "=", "\n", "=", "=", "\n", "\n">>

\* the jobs that have opened the output file at path p
Writers(p) ==
  {j \in 1..Len(futures) :
     /\ output_path[j] = p
     /\ \/ Opened(j)
        \/ exc[j] \in {"ValueError", "AttributeError"}}

\* C17: the jobs of distinct discovered files have distinct output paths,
\* each the output folder joined with the file's directory relative to the
\* input folder and with its name; so a file is opened by at most one job,
\* and in every interleaving it holds what it held before followed by the
\* records of that job alone.
C17_DistinctOutputPaths ==
  /\ \A k \in 1..Len(txt_files) : \A l \in 1..Len(txt_files) :
       k # l => /\ <<txt_files[k].rel, txt_files[k].base>> # <<txt_files[l].rel, txt_files[l].base>>
                /\ OutputPath(txt_files[k]) # OutputPath(txt_files[l])
  /\ \A k \in 1..Len(futures) :
       /\ output_path[k].dir = OutRoot \o txt_files[k].rel
       /\ output_path[k].base = txt_files[k].base
       /\ \A l \in 1..Len(futures) : k # l => output_path[k] # output_path[l]
  /\ \A p \in DOMAIN fs :
       /\ Cardinality(Writers(p)) <= 1
       /\ \A j \in Writers(p) :
            fs[p] = pre[j] \o Records(output_format[j], lines[j], translated[j])

C17_Witness ==
  /\ mainpc = "end"
  /\ Len(futures) = 2
  /\ pc[1] = "done"
  /\ pc[2] = "done"
  /\ output_path[1] = Path(<<"out">>, <<"b", ".", "t", "x", "t">>)
  /\ output_path[2] = Path(<<"out", "a">>, <<"b", ".", "t", "x", "t">>)
  /\ fs[output_path[1]] = <<"a", "\n", "b", "\n", "\n", "=", "=", "\n", "=", "=", "\n", "\n">>
  /\ fs[output_path[2]] = <<"a", "\n", "a", "\n", "\n">>

\* C18: whatever the endpoint answers, translate_text_segment returns a
\* text or None and no exception leaves it: a job never ends with an
\* exception of the call, and so never stops before the last line of its
\* file.
C18_CallNeverRaises ==
  \A j \in Jobs :
    /\ exc[j] \notin {"ValueError", "AttributeError"}
    /\ pc[j] = "raised" => line_number[j] = Len(lines[j])

\* C19: the language fields of every request equal the validated
\* source_lang and target_lang; in particular a request never carries a
\* supported code other than the one that was validated.
C19_RequestCarriesValidatedCode ==
  \A j \in Jobs :
    pc[j] \in {"request", "await"} =>
      /\ data[j].source_language = source_lang
      /\ data[j].target_language = target_lang
      /\ \A c \in {data[j].source_language, data[j].target_language} :
           c \in supported_languages => c \in {source_lang, target_lang}

\* C20: the dispatcher reports a job as translated and saved only if the
\* job wrote a record for every line of its input file; a file skipped
\* for a decode error is never reported so.
C20_TranslatedMeansAllWritten ==
  \A i \in 1..Len(log) :
    log[i][1] = "translated" =>
      /\ pc[log[i][2]] = "done"
      /\ Len(translated[log[i][2]]) = Len(src[log[i][2]].lines)

====
